---- MODULE Spec2Model ----
(***************************************************************************)
(* A model of threatexchange/ncmec/hash_api.py: the XML element wrapper    *)
(* (_XMLWrapper), the decoders (NCMECEntryUpdate.from_xml and              *)
(* GetEntriesResponse.from_xml), the HTTP transport (_get_session, _get,   *)
(* _post) and the pagination loop (get_entries, get_entries_iter).         *)
(*                                                                         *)
(* Conventions.                                                            *)
(*  - A Python str is a sequence of one-character strings, so that lower(),*)
(*    startswith(), slicing, int() and concatenation are computed.         *)
(*  - An Optional value is a sequence of length 0 (None) or 1 (the value). *)
(*  - An ET.Element is a record [id, tag, text, attrib, children]; id is   *)
(*    the object's identity (what Python's `is` compares).                 *)
(*  - An evaluation that may raise yields Ok(v) or Raise(exception name).  *)
(*  - A date string "YYYY-MM-DDTHH:MM:SSZ" is abstracted to the decimal    *)
(*    count of seconds its calendar fields stand for, followed by "Z".     *)
(***************************************************************************)
EXTENDS Integers, Sequences, FiniteSets, TLC

VARIABLES
    pc,            \* client runs: where the caller's operation stands
    op,            \* client runs: the operation called: "iter", "status" or "post"
    start_timestamp, \* get_entries_iter's argument
    has_more,      \* get_entries_iter's local
    next_,         \* get_entries_iter's local: the cursor for the next call
    request,       \* the HTTP request under way: method, url, params
    requests,      \* the requests of the get_entries calls made so far
    attempts,      \* HTTP attempts made for the request under way
    retriesLeft,   \* what is left of Retry.total for the request under way
    response,      \* the response session.get returned
    sessions,      \* the requests.Session objects that are open
    sessionsOpened, \* how many sessions were opened so far
    clock,         \* time.time(), in seconds
    served,        \* the entries documents the server has sent, in order
    yielded,       \* the pages get_entries_iter has yielded, in order
    outcome,       \* what the operation returned or raised
    decKind,       \* decoder runs: which decoder is applied, "entry" or "page"
    decXml,        \* decoder runs: the element handed to the decoder
    decFallback,   \* decoder runs: fallback_max_time
    decResult,     \* decoder runs: what the decoder returned or raised
    optimize,      \* the interpreter runs with -O: assert statements are removed
    tzOffset,      \* the host's local time zone, seconds east of UTC
    defaultEle,    \* the module global _DEFAULT_ELE
    navRoot,       \* navigator runs: the parsed tree
    navCur,        \* navigator runs: the _XMLWrapper at hand (its .element)
    navCall,       \* navigator runs: the last call made and the wrapper it was made on
    navResult      \* navigator runs: what the last call returned or raised

envVars == <<optimize, tzOffset, defaultEle>>
navVars == <<navRoot, navCur, navCall, navResult>>
decVars == <<decKind, decXml, decFallback, decResult>>
cliVars == <<pc, op, start_timestamp, has_more, next_, request, requests, attempts,
             retriesLeft, response, sessions, sessionsOpened, clock, served, yielded,
             outcome>>
vars == <<envVars, navVars, decVars, cliVars>>

---------------------------------------------------------------------------
(* Python values *)

None == <<>>
Some(v) == <<v>>
IsNone(o) == Len(o) = 0
Get(o) == o[1]

Ok(v) == [ok |-> TRUE, v |-> v]
Raise(e) == [ok |-> FALSE, exc |-> e]

S_empty == <<>>
S_id == <<"i", "d">>
S_member == <<"m", "e", "m", "b", "e", "r">>
S_next == <<"n", "e", "x", "t">>
S_paging == <<"p", "a", "g", "i", "n", "g">>
S_images == <<"i", "m", "a", "g", "e", "s">>
S_videos == <<"v", "i", "d", "e", "o", "s">>
S_image == <<"i", "m", "a", "g", "e">>
S_video == <<"v", "i", "d", "e", "o">>
S_deleted == <<"d", "e", "l", "e", "t", "e", "d">>
S_maxTimestamp == <<"m", "a", "x", "T", "i", "m", "e", "s", "t", "a", "m", "p">>
S_classification == <<"c", "l", "a", "s", "s", "i", "f", "i", "c", "a", "t", "i", "o", "n">>
S_fingerprints == <<"f", "i", "n", "g", "e", "r", "p", "r", "i", "n", "t", "s">>

\* ET.Element(tag): a fresh element object
Element(id, tag, text, attrib, children) ==
    [id |-> id, tag |-> tag, text |-> text, attrib |-> attrib, children |-> children]

\* _DEFAULT_ELE = ET.Element("")
DEFAULT_ELE_INIT == Element(0, S_empty, None, {}, <<>>)

\* no navigator run is under way
NavIdle ==
    /\ navRoot = DEFAULT_ELE_INIT
    /\ navCur = DEFAULT_ELE_INIT
    /\ navCall = [op |-> "none"]
    /\ navResult = Ok(None)

\* no decoder run is under way
DecIdle ==
    /\ decKind = "none"
    /\ decXml = DEFAULT_ELE_INIT
    /\ decFallback = 0
    /\ decResult = [op |-> "none"]

\* no client run is under way
CliIdle ==
    /\ pc = "idle"
    /\ op = "none"
    /\ start_timestamp = 0
    /\ has_more = FALSE
    /\ next_ = <<>>
    /\ request = [method |-> "none"]
    /\ requests = <<>>
    /\ attempts = 0
    /\ retriesLeft = 0
    /\ response = [status |-> 0]
    /\ sessions = {}
    /\ sessionsOpened = 0
    /\ clock = 0
    /\ served = <<>>
    /\ yielded = <<>>
    /\ outcome = [op |-> "none"]

\* Element.findall(key): the direct children whose tag is key, in document order
RECURSIVE findall(_, _)
findall(children, key) ==
    IF children = <<>> THEN <<>>
    ELSE (IF Head(children).tag = key THEN <<Head(children)>> ELSE <<>>)
         \o findall(Tail(children), key)

\* Element.find(key): the first such child, or None
find(e, key) ==
    LET m == findall(e.children, key) IN IF m = <<>> THEN None ELSE Some(m[1])

\* Element.get(key): the attribute's value, or None
attrGet(e, key) ==
    IF \E p \in e.attrib : p[1] = key
    THEN Some((CHOOSE p \in e.attrib : p[1] = key)[2])
    ELSE None

\* nullthrows(v): `assert v is not None; return v`
nullthrows(v) ==
    IF IsNone(v) /\ ~optimize THEN Raise("AssertionError") ELSE Ok(v)

Digits == <<"0", "1", "2", "3", "4", "5", "6", "7", "8", "9">>
IsDigit(c) == \E i \in 1..10 : Digits[i] = c
DigitVal(c) == (CHOOSE i \in 1..10 : Digits[i] = c) - 1

RECURSIVE DecimalValue(_)
DecimalValue(s) ==
    IF s = <<>> THEN 0
    ELSE 10 * DecimalValue(SubSeq(s, 1, Len(s) - 1)) + DigitVal(s[Len(s)])

AllDigits(s) == s # <<>> /\ \A i \in 1..Len(s) : IsDigit(s[i])

\* int(v) as Python computes it on an Optional[str]
PyInt(o) ==
    IF IsNone(o) THEN Raise("TypeError")
    ELSE LET s == Get(o)
             body == IF s # <<>> /\ s[1] = "-" THEN Tail(s) ELSE s
         IN  IF ~AllDigits(body) THEN Raise("ValueError")
             ELSE Ok(IF s[1] = "-" THEN 0 - DecimalValue(body) ELSE DecimalValue(body))

---------------------------------------------------------------------------
(* _XMLWrapper: a wrapper is represented by the element it holds *)

\* _XMLWrapper.__getitem__
XMLWrapper_getitem(e, key) ==
    LET child == findall(e.children, key) IN
    IF child = <<>> THEN Raise("IndexError")
    ELSE IF Len(child) # 1 THEN Raise("ValueError")
    ELSE Ok(child[1])

\* _XMLWrapper.maybe(key, *rest); path = (key,) + rest
RECURSIVE maybe_walk(_, _)
maybe_walk(curr, path) ==
    IF path = <<>> THEN curr
    ELSE LET child == find(curr, Head(path)) IN
         IF IsNone(child) THEN defaultEle
         ELSE maybe_walk(Get(child), Tail(path))

XMLWrapper_maybe(e, path) == maybe_walk(e, path)

\* _XMLWrapper.text
XMLWrapper_text(e) == nullthrows(e.text)

\* _XMLWrapper.tag
XMLWrapper_tag(e) == e.tag

\* _XMLWrapper.__len__
XMLWrapper_len(e) == Len(e.children)

\* a wrapper without __bool__: Python falls back to __len__
XMLWrapper_bool_by_len(e) == Len(e.children) # 0

\* _XMLWrapper.__bool__
XMLWrapper_bool(e) == e.id # defaultEle.id

\* _XMLWrapper.__iter__
XMLWrapper_iter(e) == e.children

\* _XMLWrapper.int
XMLWrapper_int(e, key) ==
    LET v == nullthrows(attrGet(e, key)) IN
    IF ~v.ok THEN v ELSE PyInt(v.v)

\* _XMLWrapper.str
XMLWrapper_str(e, key) == nullthrows(attrGet(e, key))

---------------------------------------------------------------------------
(* Navigator runs: a parsed tree is walked with the wrapper's operations *)

MaxChildren == 2

\* the time zones a host may be set to, as seconds east of UTC
TimeZones == {-1, 0, 1}

NavNames == {S_id, S_next}

\* A leaf below a child of the root; ids are assigned by position
NavLeaf(id, text) == Element(id, S_next, text, {}, <<>>)

\* what a child of the root carries: text, attributes, children
NavVariants(id) ==
    { [text |-> None, attrib |-> {}, kids |-> <<>>],
      [text |-> Some(<<"x">>), attrib |-> {<<S_id, <<"7">>>>}, kids |-> <<>>],
      [text |-> None, attrib |-> {<<S_id, <<"x">>>>}, kids |-> <<>>],
      [text |-> Some(<<"x">>), attrib |-> {}, kids |-> <<NavLeaf(id, Some(<<"c">>))>>],
      [text |-> None, attrib |-> {<<S_id, <<"-", "3">>>>}, kids |-> <<NavLeaf(id, None)>>] }

NavChild(id) ==
    { Element(id, tag, v.text, v.attrib, v.kids) :
        tag \in NavNames, v \in NavVariants(10 * id) }

RECURSIVE NavChildSeqs(_)
NavChildSeqs(n) ==
    IF n = 0 THEN {<<>>}
    ELSE LET shorter == NavChildSeqs(n - 1) IN
         shorter \cup { Append(s, c) : s \in {t \in shorter : Len(t) = n - 1},
                                       c \in NavChild(n + 1) }

NavTrees == { Element(1, <<"r">>, None, {}, kids) : kids \in NavChildSeqs(MaxChildren) }

NavPaths == { <<a>> : a \in NavNames } \cup { <<a, b>> : a \in NavNames, b \in NavNames }

EnvInit ==
    /\ optimize \in BOOLEAN
    /\ tzOffset \in TimeZones
    /\ defaultEle = DEFAULT_ELE_INIT

\* client runs: the default build, in any time zone
CliEnvInit ==
    /\ optimize = FALSE
    /\ tzOffset \in TimeZones
    /\ defaultEle = DEFAULT_ELE_INIT

\* navigator runs read neither the clock nor the time zone
NavEnvInit ==
    /\ optimize \in BOOLEAN
    /\ tzOffset = 0
    /\ defaultEle = DEFAULT_ELE_INIT

NavInit ==
    /\ navRoot \in NavTrees
    /\ navCur = navRoot
    /\ navCall = [op |-> "none"]
    /\ navResult = Ok(None)

\* xml[key]
NavGetItem(key) ==
    LET r == XMLWrapper_getitem(navCur, key) IN
    /\ navCall' = [op |-> "getitem", arg |-> key, on |-> navCur]
    /\ navResult' = r
    /\ navCur' = IF r.ok THEN r.v ELSE navCur
    /\ UNCHANGED <<navRoot, envVars, decVars, cliVars>>

\* xml.maybe(*path)
NavMaybe(path) ==
    LET r == XMLWrapper_maybe(navCur, path) IN
    /\ navCall' = [op |-> "maybe", arg |-> path, on |-> navCur]
    /\ navResult' = Ok(r)
    /\ navCur' = r
    /\ UNCHANGED <<navRoot, envVars, decVars, cliVars>>

\* xml.text
NavText ==
    LET r == XMLWrapper_text(navCur) IN
    /\ navCall' = [op |-> "text", on |-> navCur]
    /\ navResult' = r
    /\ UNCHANGED <<navRoot, navCur, envVars, decVars, cliVars>>

\* xml.int(key)
NavInt(key) ==
    LET r == XMLWrapper_int(navCur, key) IN
    /\ navCall' = [op |-> "int", arg |-> key, on |-> navCur]
    /\ navResult' = r
    /\ UNCHANGED <<navRoot, navCur, envVars, decVars, cliVars>>

\* xml.str(key)
NavStr(key) ==
    LET r == XMLWrapper_str(navCur, key) IN
    /\ navCall' = [op |-> "str", arg |-> key, on |-> navCur]
    /\ navResult' = r
    /\ UNCHANGED <<navRoot, navCur, envVars, decVars, cliVars>>

\* bool(xml) and len(xml)
NavBool ==
    /\ navCall' = [op |-> "bool", on |-> navCur]
    /\ navResult' = Ok([bool |-> XMLWrapper_bool(navCur), len |-> XMLWrapper_len(navCur)])
    /\ UNCHANGED <<navRoot, navCur, envVars, decVars, cliVars>>

\* the caller goes back to the wrapper of the root
NavRewind ==
    /\ navCur # navRoot
    /\ navCur' = navRoot
    /\ navCall' = [op |-> "none"]
    /\ navResult' = Ok(None)
    /\ UNCHANGED <<navRoot, envVars, decVars, cliVars>>

NavNext ==
    \/ \E key \in NavNames : NavGetItem(key)
    \/ \E path \in NavPaths : NavMaybe(path)
    \/ NavText
    \/ \E key \in NavNames : NavInt(key)
    \/ \E key \in NavNames : NavStr(key)
    \/ NavBool
    \/ NavRewind

InitNav == NavEnvInit /\ NavInit /\ DecIdle /\ CliIdle

SpecNav == InitNav /\ [][NavNext]_vars

---------------------------------------------------------------------------
(* Properties of the navigator *)

\* the elements of a parsed tree
RECURSIVE Nodes(_)
Nodes(e) == {e} \cup UNION { Nodes(e.children[i]) : i \in 1..Len(e.children) }

CountTag(e, key) == Cardinality({ i \in 1..Len(e.children) : e.children[i].tag = key })

\* the node a chain of names leads to, taking the first match at each step
RECURSIVE Reached(_, _)
Reached(e, path) ==
    IF path = <<>> THEN {e}
    ELSE IF CountTag(e, Head(path)) = 0 THEN {}
    ELSE LET i == CHOOSE i \in 1..Len(e.children) :
                    /\ e.children[i].tag = Head(path)
                    /\ \A j \in 1..(i - 1) : e.children[j].tag # Head(path)
         IN  Reached(e.children[i], Tail(path))

\* the target of a required accessor is missing or ambiguous
TargetMissing(call) ==
    \/ call.op = "getitem" /\ CountTag(call.on, call.arg) # 1
    \/ call.op = "text" /\ call.on.text = None
    \/ call.op = "str" /\ \A p \in call.on.attrib : p[1] # call.arg
    \/ call.op = "int" /\ \A p \in call.on.attrib : p[1] # call.arg \/ p[2] \notin {<<"7">>, <<"-", "3">>}

\* the exception kinds the required accessors raise somewhere in the tree
RequiredFailures(root) ==
    LET calls == { XMLWrapper_text(e) : e \in Nodes(root) }
           \cup { XMLWrapper_getitem(e, k) : e \in Nodes(root), k \in NavNames }
           \cup { XMLWrapper_int(e, k) : e \in Nodes(root), k \in NavNames }
           \cup { XMLWrapper_str(e, k) : e \in Nodes(root), k \in NavNames }
    IN  { r.exc : r \in { c \in calls : ~c.ok } }

\* C7: a required accessor (xml[key], text, int, str) whose target is missing
\* or ambiguous never returns: it raises, and every such failure is of one
\* and the same error kind.
C7_RequiredFailWithOneKind ==
    (navCall.op \in {"getitem", "text", "int", "str"} /\ TargetMissing(navCall))
        => /\ ~navResult.ok
           /\ RequiredFailures(navRoot) \subseteq {navResult.exc}

\* C8: maybe never raises; it returns the node the path leads to when every
\* step exists and the shared sentinel otherwise; the sentinel is falsy, has
\* no children and no text and is never modified; every element of the
\* parsed tree, also one without children, is truthy.
C8_MaybeSentinel ==
    /\ defaultEle = DEFAULT_ELE_INIT
    /\ navCall.op = "maybe" =>
          /\ navResult.ok
          /\ LET hit == Reached(navCall.on, navCall.arg) IN
             IF hit # {}
             THEN navResult.v \in hit
             ELSE /\ navResult.v.id = defaultEle.id
                  /\ navResult.v = defaultEle
                  /\ navResult.v.children = <<>>
                  /\ navResult.v.text = None
    /\ navCall.op = "bool" =>
          /\ navResult.v.bool = (navCall.on \in Nodes(navRoot))
          /\ navCall.on \notin Nodes(navRoot) => navResult.v.len = 0

\* a two-step path whose first step exists and whose second is missing gave the sentinel
C8_Witness ==
    /\ navCall.op = "maybe"
    /\ Len(navCall.arg) = 2
    /\ CountTag(navCall.on, navCall.arg[1]) > 0
    /\ Reached(navCall.on, navCall.arg) = {}
    /\ navResult.v = defaultEle

---------------------------------------------------------------------------
(* Strings and dates *)

UpperCase == <<"A", "B", "C", "D", "E", "F", "G", "H", "I", "J", "K", "L", "M",
               "N", "O", "P", "Q", "R", "S", "T", "U", "V", "W", "X", "Y", "Z">>
LowerCase == <<"a", "b", "c", "d", "e", "f", "g", "h", "i", "j", "k", "l", "m",
               "n", "o", "p", "q", "r", "s", "t", "u", "v", "w", "x", "y", "z">>

LowerChar(c) ==
    IF \E i \in 1..26 : UpperCase[i] = c
    THEN LowerCase[CHOOSE i \in 1..26 : UpperCase[i] = c]
    ELSE c

\* str.lower()
lower(s) == [i \in 1..Len(s) |-> LowerChar(s[i])]

\* str.startswith(prefix)
startswith(s, prefix) ==
    Len(s) >= Len(prefix) /\ SubSeq(s, 1, Len(prefix)) = prefix

\* s[n:]
SliceFrom(s, n) == SubSeq(s, n + 1, Len(s))

\* str(n) for n >= 0
RECURSIVE DecimalString(_)
DecimalString(n) ==
    IF n < 10 THEN <<Digits[n + 1]>>
    ELSE Append(DecimalString(n \div 10), Digits[(n % 10) + 1])

\* the date string whose calendar fields stand for `wall` seconds
DateString(wall) ==
    (IF wall < 0 THEN <<"-">> \o DecimalString(0 - wall) ELSE DecimalString(wall)) \o <<"Z">>

\* datetime.strptime(s, _DATE_FORMAT_STR): the naive datetime, as its seconds
strptime(o) ==
    IF IsNone(o) THEN Raise("TypeError")
    ELSE LET s == Get(o) IN
         IF s = <<>> \/ s[Len(s)] # "Z" THEN Raise("ValueError")
         ELSE LET n == PyInt(Some(SubSeq(s, 1, Len(s) - 1))) IN
              IF n.ok THEN n ELSE Raise("ValueError")

\* datetime.timestamp() of a naive datetime: its fields are read as local time
timestamp(wall) == wall - tzOffset

\* datetime.fromtimestamp(t): the naive local datetime, as its seconds
fromtimestamp(t) == t + tzOffset

\* _date_format
date_format(t) == DateString(fromtimestamp(t))

Max(a, b) == IF a >= b THEN a ELSE b

---------------------------------------------------------------------------
(* Decoders *)

\* NCMECEntryType(value)
NCMECEntryType(type_str) ==
    IF type_str \in {S_image, S_video} THEN Ok(type_str) ELSE Raise("ValueError")

\* {x.tag: x.text for x in xml}: later children overwrite earlier ones
RECURSIVE fingerprints_of(_, _)
fingerprints_of(children, acc) ==
    IF children = <<>> THEN Ok(acc)
    ELSE LET x == Head(children)
             t == XMLWrapper_text(x)
         IN  IF ~t.ok THEN t
             ELSE fingerprints_of(Tail(children),
                      {p \in acc : p[1] # XMLWrapper_tag(x)} \cup {<<XMLWrapper_tag(x), t.v>>})

\* a decoder that never strips the "deleted" prefix
EntryUpdate_type_unstripped(tag) ==
    LET type_str == lower(tag) IN
    [type_str |-> type_str, deleted |-> startswith(type_str, S_deleted)]

\* NCMECEntryUpdate.from_xml, lines 126-129: the tag gives type and deleted flag
EntryUpdate_type(tag) ==
    LET type_str == lower(tag)
        deleted == startswith(type_str, S_deleted)
    IN  [type_str |-> IF deleted THEN SliceFrom(type_str, Len(S_deleted)) ELSE type_str,
         deleted |-> deleted]

\* NCMECEntryUpdate.from_xml; the keyword arguments are evaluated in order
NCMECEntryUpdate_from_xml(xml) ==
    LET td == EntryUpdate_type(XMLWrapper_tag(xml))
        idNode == XMLWrapper_getitem(xml, S_id)
        id == IF idNode.ok THEN XMLWrapper_text(idNode.v) ELSE idNode
        memberNode == XMLWrapper_getitem(xml, S_member)
        member_id == IF memberNode.ok THEN XMLWrapper_int(memberNode.v, S_id) ELSE memberNode
        entry_type == NCMECEntryType(td.type_str)
        classification == XMLWrapper_maybe(xml, <<S_classification>>).text
        fingerprints == fingerprints_of(
                            XMLWrapper_iter(XMLWrapper_maybe(xml, <<S_fingerprints>>)), {})
    IN  IF ~id.ok THEN id
        ELSE IF ~member_id.ok THEN member_id
        ELSE IF ~entry_type.ok THEN entry_type
        ELSE IF ~fingerprints.ok THEN fingerprints
        ELSE Ok([id |-> id.v, member_id |-> member_id.v, entry_type |-> entry_type.v,
                 deleted |-> td.deleted, classification |-> classification,
                 fingerprints |-> fingerprints.v])

\* updates.extend(NCMECEntryUpdate.from_xml(c) for c in content_xml)
RECURSIVE extend_updates(_, _)
extend_updates(updates, children) ==
    IF children = <<>> THEN Ok(updates)
    ELSE LET u == NCMECEntryUpdate_from_xml(Head(children)) IN
         IF ~u.ok THEN u
         ELSE extend_updates(Append(updates, u.v), Tail(children))

\* a loop that skips only the containers that are absent
content_skipped_if_absent(content_xml) == ~XMLWrapper_bool(content_xml)

\* GetEntriesResponse.from_xml, line 153: the container is skipped
content_skipped(content_xml) ==
    ~XMLWrapper_bool(content_xml) \/ XMLWrapper_len(content_xml) = 0

\* GetEntriesResponse.from_xml, lines 152-163: the loop over (images, videos)
RECURSIVE from_xml_loop(_, _, _, _)
from_xml_loop(xml, names, updates, max_ts) ==
    IF names = <<>> THEN Ok([updates |-> updates, max_ts |-> max_ts])
    ELSE LET content_xml == XMLWrapper_maybe(xml, <<Head(names)>>) IN
         IF content_skipped(content_xml)
         THEN from_xml_loop(xml, Tail(names), updates, max_ts)
         ELSE LET attr == XMLWrapper_str(content_xml, S_maxTimestamp)
                  parsed == IF attr.ok THEN strptime(attr.v) ELSE attr
              IN  IF ~parsed.ok THEN parsed
                  ELSE LET more == extend_updates(updates, XMLWrapper_iter(content_xml)) IN
                       IF ~more.ok THEN more
                       ELSE from_xml_loop(xml, Tail(names), more.v,
                                          Max(max_ts, timestamp(parsed.v)))

\* GetEntriesResponse.from_xml, line 166: `max_ts or fallback_max_time`
page_max_timestamp(max_ts, fallback_max_time) ==
    IF max_ts # 0 THEN max_ts ELSE fallback_max_time

\* GetEntriesResponse.from_xml
GetEntriesResponse_from_xml(xml, fallback_max_time) ==
    LET loop == from_xml_loop(xml, <<S_images, S_videos>>, <<>>, 0)
        nextText == XMLWrapper_maybe(xml, <<S_paging, S_next>>).text
        nextStr == IF IsNone(nextText) \/ Get(nextText) = <<>> THEN <<>> ELSE Get(nextText)
    IN  IF ~loop.ok THEN loop
        ELSE Ok([updates |-> loop.v.updates,
                 max_timestamp |-> page_max_timestamp(loop.v.max_ts, fallback_max_time),
                 next |-> nextStr])

---------------------------------------------------------------------------
(* Decoder runs: a decoder is applied to an element of a response *)

MaxEntries == 2

T_deletedImage == <<"d", "e", "l", "e", "t", "e", "d", "I", "m", "a", "g", "e">>
T_deletedVIDEO == <<"d", "e", "l", "e", "t", "e", "d", "V", "I", "D", "E", "O">>
T_Image == <<"I", "m", "a", "g", "e">>
T_audio == <<"a", "u", "d", "i", "o">>
T_deletedaudio == <<"d", "e", "l", "e", "t", "e", "d", "a", "u", "d", "i", "o">>
T_imagedeleted == <<"i", "m", "a", "g", "e", "d", "e", "l", "e", "t", "e", "d">>
T_deleteddeletedimage == <<"d", "e", "l", "e", "t", "e", "d", "d", "e", "l", "e", "t", "e", "d", "i", "m", "a", "g", "e">>

EntryTags == {T_deletedImage, S_video, T_deletedVIDEO, S_deleted, T_Image, T_audio,
              T_deletedaudio, T_imagedeleted, S_images, T_deleteddeletedimage}

EntryBodies == {"full", "min", "noid", "twoid", "nomemberid", "fpnotext"}

Leaf(id, tag, text, attrib) == Element(id, tag, text, attrib, <<>>)

\* the children of an entry element; ids are assigned by position
EntryChildren(id, body) ==
    LET idEl == Leaf(id + 1, S_id, Some(<<"e">> \o DecimalString(id)), {})
        member == Leaf(id + 2, S_member, None, {<<S_id, <<"4", "2">>>>})
    IN  CASE body = "full" ->
               <<idEl, member,
                 Leaf(id + 3, S_classification, Some(<<"A", "1">>), {}),
                 Element(id + 4, S_fingerprints, None, {},
                         <<Leaf(id + 5, <<"m", "d", "5">>, Some(<<"a", "a">>), {}),
                           Leaf(id + 6, <<"p", "d", "n", "a">>, Some(<<"b", "b">>), {})>>)>>
          [] body = "min" -> <<idEl, member>>
          [] body = "noid" -> <<member>>
          [] body = "twoid" -> <<idEl, Leaf(id + 3, S_id, Some(<<"e", "x">>), {}), member>>
          [] body = "nomemberid" -> <<idEl, Leaf(id + 2, S_member, None, {})>>
          [] body = "fpnotext" ->
               <<idEl, member,
                 Element(id + 4, S_fingerprints, None, {},
                         <<Leaf(id + 5, <<"m", "d", "5">>, None, {})>>)>>

EntryElement(id, tag, body) == Element(id, tag, None, {}, EntryChildren(id, body))

EntryInputs == { EntryElement(10, tag, body) : tag \in EntryTags, body \in EntryBodies }

\* the entries of a container of a page
PageEntry(id) == { EntryElement(id, T_deletedImage, "full"), EntryElement(id, T_audio, "min") }

RECURSIVE PageEntrySeqs(_)
PageEntrySeqs(n) ==
    IF n = 0 THEN {<<>>}
    ELSE LET shorter == PageEntrySeqs(n - 1) IN
         shorter \cup { Append(s, c) : s \in {t \in shorter : Len(t) = n - 1},
                                       c \in PageEntry(100 * n) }

\* the maxTimestamp attribute of a container: missing, malformed, or a date
MaxTimestampAttribs ==
    {{}, {<<S_maxTimestamp, <<"x">>>>}}
        \cup { {<<S_maxTimestamp, DateString(w)>>} : w \in {0, 2} }

\* Optional container element: absent, or present with an attribute and entries
Containers(id, tag) ==
    {None} \cup { Some(Element(id, tag, None, attrib, kids)) :
                    attrib \in MaxTimestampAttribs, kids \in PageEntrySeqs(MaxEntries) }

Cursors == {<<"/", "n", "1">>, <<"/", "n", "2">>}

Pagings(id) ==
    {None, Some(Element(id, S_paging, None, {}, <<>>))}
        \cup { Some(Element(id, S_paging, None, {}, <<Leaf(id + 1, S_next, t, {})>>)) :
                 t \in {None} \cup { Some(c) : c \in Cursors } }

\* a response document: the optional parts that are there, in document order
Document(images, videos, paging) ==
    Element(1, <<"r">>, None, {}, images \o videos \o paging)

PageInputs ==
    { Document(i, v, p) : i \in Containers(2, S_images), v \in Containers(3, S_videos),
                          p \in Pagings(4) }

Fallbacks == {0, 5}

DecInit ==
    /\ \/ decKind = "entry" /\ decXml \in EntryInputs /\ decFallback = 0
       \/ decKind = "page" /\ decXml \in PageInputs /\ decFallback \in Fallbacks
    /\ decResult = [op |-> "none"]

\* NCMECEntryUpdate.from_xml(_XMLWrapper(decXml))
DecodeEntryUpdate ==
    /\ decKind = "entry"
    /\ decResult.op = "none"
    /\ decResult' = [op |-> "entry", r |-> NCMECEntryUpdate_from_xml(decXml)]
    /\ UNCHANGED <<decKind, decXml, decFallback, envVars, navVars, cliVars>>

\* GetEntriesResponse.from_xml(_XMLWrapper(decXml), decFallback)
DecodeEntriesPage ==
    /\ decKind = "page"
    /\ decResult.op = "none"
    /\ decResult' = [op |-> "page", r |-> GetEntriesResponse_from_xml(decXml, decFallback)]
    /\ UNCHANGED <<decKind, decXml, decFallback, envVars, navVars, cliVars>>

DecNext == DecodeEntryUpdate \/ DecodeEntriesPage

InitDecode == EnvInit /\ NavIdle /\ DecInit /\ CliIdle

SpecDecode == InitDecode /\ [][DecNext]_vars

---------------------------------------------------------------------------
(* Properties of the decoders *)

\* the top-level containers of a document that are present and have children
FilledContainers(xml) ==
    { c \in { xml.children[i] : i \in 1..Len(xml.children) } :
        c.tag \in {S_images, S_videos} /\ c.children # <<>> }

\* the unix seconds a well-formed maxTimestamp attribute denotes, read as UTC
UtcSeconds(c) ==
    CHOOSE w \in 0..2 : <<S_maxTimestamp, DateString(w)>> \in c.attrib

TheMax(S) == CHOOSE m \in S : \A x \in S : x <= m

\* C4: when a container is present and not empty, the page's max_timestamp is
\* the largest maxTimestamp attribute of such containers, as unix seconds,
\* whatever the fallback is.
C4_MaxTimestampFromContainers ==
    (decResult.op = "page" /\ decResult.r.ok /\ FilledContainers(decXml) # {})
        => decResult.r.v.max_timestamp =
               TheMax({ UtcSeconds(c) : c \in FilledContainers(decXml) })

\* C5: when images and videos are each absent or without children, the page
\* decodes to max_timestamp = fallback_max_time and no updates, and the
\* maxTimestamp attribute of an empty container is never read.
C5_FallbackWhenEmpty ==
    (decResult.op = "page" /\ FilledContainers(decXml) = {})
        => /\ decResult.r.ok
           /\ decResult.r.v.max_timestamp = decFallback
           /\ decResult.r.v.updates = <<>>

\* a present, empty images container with an unparseable maxTimestamp was decoded
C5_Witness ==
    /\ decResult.op = "page"
    /\ decResult.r.ok
    /\ decFallback = 5
    /\ decResult.r.v.max_timestamp = 5
    /\ \E i \in 1..Len(decXml.children) :
          /\ decXml.children[i].tag = S_images
          /\ decXml.children[i].children = <<>>
          /\ decXml.children[i].attrib = {<<S_maxTimestamp, <<"x">>>>}

\* the entry's required children are there and well formed
EntryBodyValid(xml) ==
    xml.children \in { EntryChildren(xml.id, b) : b \in {"full", "min"} }

\* C6: the tag alone gives (entry_type, deleted): lower-cased, "deleted" +
\* type means deleted, the bare type means not deleted, and the decode fails
\* for every tag that is neither, the bare tag "deleted" included.
C6_TagGivesTypeAndDeleted ==
    decResult.op = "entry" =>
        LET low == lower(decXml.tag)
            r == decResult.r
            types == {S_image, S_video}
        IN  /\ r.ok => \E t \in types :
                          /\ r.v.entry_type = t
                          /\ \/ r.v.deleted /\ low = S_deleted \o t
                             \/ ~r.v.deleted /\ low = t
            /\ (\A t \in types : low # t /\ low # S_deleted \o t) => ~r.ok
            /\ (EntryBodyValid(decXml) /\ \E t \in types : low \in {t, S_deleted \o t}) => r.ok
            /\ (r.ok /\ decXml.tag = T_deletedImage)
                  => r.v.entry_type = S_image /\ r.v.deleted
            /\ (r.ok /\ decXml.tag = S_video)
                  => r.v.entry_type = S_video /\ ~r.v.deleted
            /\ (r.ok /\ decXml.tag = T_deletedVIDEO)
                  => r.v.entry_type = S_video /\ r.v.deleted
            /\ decXml.tag = S_deleted => ~r.ok

\* the tag deletedVIDEO was decoded to (video, deleted)
C6_Witness ==
    /\ decResult.op = "entry"
    /\ decXml.tag = T_deletedVIDEO
    /\ decResult.r.ok
    /\ decResult.r.v.entry_type = S_video
    /\ decResult.r.v.deleted

---------------------------------------------------------------------------
(* Transport *)

\* Retry(total=4, ...)
RetryTotal == 4
status_forcelist == {429, 500, 502, 503, 504}
allowed_methods == {"HEAD", "GET", "OPTIONS"}

\* NCMECHashAPI.VERSION
VERSION == <<"v", "2">>

\* NCMECEndpoint
E_status == <<"s", "t", "a", "t", "u", "s">>
E_entries == <<"e", "n", "t", "r", "i", "e", "s">>

\* NCMECEnvironment.test_Industry, the default environment
BaseUrl == <<"h", "t", "t", "p", "s", ":", "/", "/", "e", "x", "t", "t", "e", "s", "t", ".", "c", "y", "b", "e", "r", "t", "i", "p", ".", "o", "r", "g", "/", "h", "a", "s", "h", "s", "h", "a", "r", "i", "n", "g">>

\* sep.join(parts)
RECURSIVE join(_, _)
join(sep, parts) ==
    IF Len(parts) = 1 THEN parts[1]
    ELSE parts[1] \o sep \o join(sep, Tail(parts))

\* a _get that keeps the query parameters when it follows a cursor
get_request_keeping_params(endpoint, cursor, params) ==
    IF cursor # <<>>
    THEN [method |-> "GET", url |-> BaseUrl \o cursor, params |-> params]
    ELSE [method |-> "GET", url |-> join(<<"/">>, <<BaseUrl, VERSION, endpoint>>),
          params |-> params]

\* NCMECHashAPI._get, lines 252-255: the url and the parameters of the request
get_request(endpoint, cursor, params) ==
    IF cursor # <<>>
    THEN [method |-> "GET", url |-> BaseUrl \o cursor, params |-> {}]
    ELSE [method |-> "GET", url |-> join(<<"/">>, <<BaseUrl, VERSION, endpoint>>),
          params |-> params]

\* NCMECHashAPI._post, line 278
post_request(endpoint) ==
    [method |-> "POST", url |-> join(<<"/">>, <<BaseUrl, endpoint>>), params |-> {}]

\* NCMECHashAPI.get_entries, lines 300-307: the keyword arguments of _get
get_entries_params(start, now) ==
    {<<"from", date_format(start)>>, <<"to", date_format(now)>>}

\* a retry policy that retries every method
is_retry_any_method(method, status) == status \in status_forcelist

\* Retry.is_retry for the configured policy: the method is allowed and the
\* status is in status_forcelist
is_retry(method, status) == method \in allowed_methods /\ status \in status_forcelist

\* Retry.increment(...).is_exhausted(): total is decremented and has fallen below 0
retry_exhausted(total) == total - 1 < 0

\* a session that is closed only when the block ends without an exception
with_exit_unless_raised(open, session, raised) ==
    IF raised THEN open ELSE open \ {session}

\* `with self._get_session(endpoint) as session:` is left: Session.__exit__ closes it
with_exit(open, session, raised) == open \ {session}

\* Response.raise_for_status()
raise_for_status(status) == IF status >= 400 THEN Raise("HTTPError") ELSE Ok(status)

\* el.tag.partition("}"): the tag without its namespace
strip_tag(tag) ==
    IF \E i \in 1..Len(tag) : tag[i] = "}"
    THEN LET i == CHOOSE i \in 1..Len(tag) :
                    tag[i] = "}" /\ \A j \in 1..(i - 1) : tag[j] # "}"
         IN  SubSeq(tag, i + 1, Len(tag))
    ELSE tag

\* NCMECHashAPI._get, lines 264-269: every element's tag loses its namespace
RECURSIVE strip_namespaces(_)
strip_namespaces(e) ==
    [e EXCEPT !.tag = strip_tag(e.tag),
              !.children = [i \in 1..Len(e.children) |-> strip_namespaces(e.children[i])]]

\* the document as the server sends it: every tag carries the namespace
RECURSIVE Namespaced(_)
Namespaced(e) ==
    [e EXCEPT !.tag = <<"{", "n", "}">> \o e.tag,
              !.children = [i \in 1..Len(e.children) |-> Namespaced(e.children[i])]]

---------------------------------------------------------------------------
(* The server *)

MaxPages == 3
MaxClock == 5

Statuses == {200, 404, 500, 503}

ServerBodies ==
    { [images |-> None, videos |-> None],
      [images |-> Some(Element(2, S_images, None, {<<S_maxTimestamp, DateString(2)>>},
                               <<EntryElement(100, T_deletedImage, "full")>>)),
       videos |-> None],
      [images |-> Some(Element(2, S_images, None, {<<S_maxTimestamp, DateString(1)>>},
                               <<EntryElement(100, T_Image, "min")>>)),
       videos |-> Some(Element(3, S_videos, None, {<<S_maxTimestamp, DateString(2)>>},
                               <<EntryElement(200, S_video, "min"),
                                 EntryElement(300, T_deletedVIDEO, "full")>>))],
      [images |-> Some(Element(2, S_images, None, {<<S_maxTimestamp, DateString(2)>>},
                               <<EntryElement(100, T_audio, "min")>>)),
       videos |-> None] }

CursorPaging(c) == Some(Element(4, S_paging, None, {}, <<Leaf(5, S_next, Some(c), {})>>))

\* the documents the server may send as its k-th page; the last one it has
\* carries no cursor
ServerPages(k) ==
    { Document(b.images, b.videos, None) : b \in ServerBodies }
        \cup (IF k >= MaxPages THEN {}
              ELSE { Document(b.images, b.videos, CursorPaging(c)) :
                        b \in ServerBodies, c \in Cursors })

StatusDocs ==
    { Element(1, <<"r">>, None, {}, <<>>),
      Element(1, <<"r">>, None, {},
              <<Leaf(2, S_member, Some(<<"e", "s", "p">>), {<<S_id, <<"4", "2">>>>})>>),
      Element(1, <<"r">>, None, {}, <<Leaf(2, S_member, None, {<<S_id, <<"4", "2">>>>})>>) }

ErrorBody == Element(1, <<"e", "r", "r">>, None, {}, <<>>)

---------------------------------------------------------------------------
(* The client *)

CliInit ==
    /\ pc = "idle"
    /\ op = "none"
    /\ start_timestamp = 0
    /\ has_more = FALSE
    /\ next_ = <<>>
    /\ request = [method |-> "none"]
    /\ requests = <<>>
    /\ attempts = 0
    /\ retriesLeft = 0
    /\ response = [status |-> 0]
    /\ sessions = {}
    /\ sessionsOpened = 0
    /\ clock = MaxClock - 1
    /\ served = <<>>
    /\ yielded = <<>>
    /\ outcome = [op |-> "none"]

\* a stopping rule that goes on while pages carry updates
iter_has_more_by_updates(result) == result.updates # <<>>

\* get_entries_iter, lines 321-322: has_more = bool(result.next)
iter_has_more(result) == result.next # <<>>

\* the session of the request under way
CurrentSession == sessionsOpened

\* a call of _get or _post begins: its local `response` is unbound;
\* _get_session() and the entry of the with block
OpenSession ==
    /\ response' = [status |-> 0]
    /\ sessionsOpened' = sessionsOpened + 1
    /\ sessions' = sessions \cup {sessionsOpened + 1}
    /\ attempts' = 0
    /\ retriesLeft' = RetryTotal

\* api.get_entries_iter(start_timestamp): the generator is made, nothing runs
CallIter(ts) ==
    /\ pc = "idle"
    /\ op' = "iter"
    /\ start_timestamp' = ts
    /\ has_more' = TRUE
    /\ next_' = <<>>
    /\ pc' = "suspended"
    /\ UNCHANGED <<request, requests, attempts, retriesLeft, response, sessions,
                   sessionsOpened, clock, served, yielded, outcome>>
    /\ UNCHANGED <<envVars, navVars, decVars>>

\* next(generator) while has_more: get_entries builds its request and _get
\* opens a session
IterNext ==
    /\ pc = "suspended"
    /\ has_more
    /\ request' = get_request(E_entries, next_, get_entries_params(start_timestamp, clock))
    /\ requests' = Append(requests, [cursor |-> next_, url |-> request'.url,
                                     params |-> request'.params])
    /\ OpenSession
    /\ pc' = "sending"
    /\ UNCHANGED <<op, start_timestamp, has_more, next_, clock, served, yielded, outcome>>
    /\ UNCHANGED <<envVars, navVars, decVars>>

\* next(generator) when has_more is false: the generator returns
IterStop ==
    /\ pc = "suspended"
    /\ ~has_more
    /\ pc' = "done"
    /\ outcome' = [op |-> "iter", r |-> Raise("StopIteration")]
    /\ UNCHANGED <<op, start_timestamp, has_more, next_, request, requests, attempts,
                   retriesLeft, response, sessions, sessionsOpened, clock, served,
                   yielded>>
    /\ UNCHANGED <<envVars, navVars, decVars>>

\* api.status(): _get(NCMECEndpoint.status)
CallStatus ==
    /\ pc = "idle"
    /\ op' = "status"
    /\ request' = get_request(E_status, <<>>, {})
    /\ OpenSession
    /\ pc' = "sending"
    /\ UNCHANGED <<start_timestamp, has_more, next_, requests, clock, served, yielded,
                   outcome>>
    /\ UNCHANGED <<envVars, navVars, decVars>>

\* api._post(endpoint, data=...)
CallPost ==
    /\ pc = "idle"
    /\ op' = "post"
    /\ request' = post_request(E_entries)
    /\ OpenSession
    /\ pc' = "sending"
    /\ UNCHANGED <<start_timestamp, has_more, next_, requests, clock, served, yielded,
                   outcome>>
    /\ UNCHANGED <<envVars, navVars, decVars>>

\* time passes while a request is under way
Tick(d) ==
    /\ clock + d <= MaxClock
    /\ clock' = clock + d

\* an attempt gets a status of the force list and is retried
HttpRetry(status, d) ==
    /\ pc = "sending"
    /\ is_retry(request.method, status)
    /\ ~retry_exhausted(retriesLeft)
    /\ attempts' = attempts + 1
    /\ retriesLeft' = retriesLeft - 1
    /\ Tick(d)
    /\ UNCHANGED <<pc, op, start_timestamp, has_more, next_, request, requests, response,
                   sessions, sessionsOpened, served, yielded, outcome>>
    /\ UNCHANGED <<envVars, navVars, decVars>>

\* an attempt gets a status of the force list and no retry is left: the
\* adapter raises RetryError, which leaves the with block
HttpExhausted(status, d) ==
    /\ pc = "sending"
    /\ is_retry(request.method, status)
    /\ retry_exhausted(retriesLeft)
    /\ attempts' = attempts + 1
    /\ Tick(d)
    /\ sessions' = with_exit(sessions, CurrentSession, TRUE)
    /\ pc' = "failed"
    /\ outcome' = [op |-> op, r |-> Raise("RetryError")]
    /\ UNCHANGED <<op, start_timestamp, has_more, next_, request, requests, retriesLeft,
                   response, sessionsOpened, served, yielded>>
    /\ UNCHANGED <<envVars, navVars, decVars>>

\* session.get returns a response and the with block of _get is left
GetResponse(status, d, doc) ==
    /\ pc = "sending"
    /\ request.method = "GET"
    /\ ~is_retry(request.method, status)
    /\ attempts' = attempts + 1
    /\ Tick(d)
    /\ IF status = 200
       THEN /\ doc \in (IF op = "iter" THEN ServerPages(Len(served) + 1) ELSE StatusDocs)
            /\ served' = IF op = "iter" THEN Append(served, doc) ELSE served
            /\ response' = [status |-> status, content |-> Namespaced(doc)]
       ELSE /\ doc = ErrorBody
            /\ served' = served
            /\ response' = [status |-> status, content |-> doc]
    /\ sessions' = with_exit(sessions, CurrentSession, FALSE)
    /\ pc' = "received"
    /\ UNCHANGED <<op, start_timestamp, has_more, next_, request, requests, retriesLeft,
                   sessionsOpened, yielded, outcome>>
    /\ UNCHANGED <<envVars, navVars, decVars>>

\* session.post returns a response; raise_for_status() runs inside the with
\* block of _post, which is then left by return or by the exception
PostResponse(status, d) ==
    /\ pc = "sending"
    /\ request.method = "POST"
    /\ ~is_retry(request.method, status)
    /\ attempts' = attempts + 1
    /\ Tick(d)
    /\ response' = [status |-> status, content |-> ErrorBody]
    /\ LET checked == raise_for_status(status) IN
       /\ sessions' = with_exit(sessions, CurrentSession, ~checked.ok)
       /\ pc' = IF checked.ok THEN "done" ELSE "failed"
       /\ outcome' = [op |-> op, r |-> IF checked.ok THEN Ok(response') ELSE checked]
    /\ UNCHANGED <<op, start_timestamp, has_more, next_, request, requests, retriesLeft,
                   sessionsOpened, served, yielded>>
    /\ UNCHANGED <<envVars, navVars, decVars>>

\* NCMECHashAPI.status, lines 287-288
status_result(root) ==
    LET member == XMLWrapper_getitem(root, S_member)
        id == IF member.ok THEN XMLWrapper_int(member.v, S_id) ELSE member
        name == IF member.ok THEN XMLWrapper_text(member.v) ELSE member
    IN  IF ~id.ok THEN id
        ELSE IF ~name.ok THEN name
        ELSE Ok([esp_id |-> id.v, esp_name |-> name.v])

\* NCMECHashAPI._get, lines 262-269: raise_for_status, then the parsed root
get_root(resp) ==
    IF raise_for_status(resp.status).ok
    THEN Ok(strip_namespaces(resp.content))
    ELSE raise_for_status(resp.status)

\* what the caller of _get makes of the root: get_entries decodes a page with
\* int(time.time()) as fallback (line 309), status reads the member
decode_root(operation, root, now) ==
    IF ~root.ok THEN root
    ELSE IF operation = "iter" THEN GetEntriesResponse_from_xml(root.v, now)
    ELSE status_result(root.v)

\* get_entries_iter, lines 320-323, with the result of get_entries
IterYield(result) ==
    /\ next_' = result.next
    /\ has_more' = iter_has_more(result)
    /\ yielded' = Append(yielded, result)
    /\ pc' = "suspended"
    /\ outcome' = outcome

\* the operation ends: status returns, or an exception reaches the caller
Finish(decoded) ==
    /\ pc' = IF decoded.ok THEN "done" ELSE "failed"
    /\ outcome' = [op |-> op, r |-> decoded]
    /\ UNCHANGED <<next_, has_more, yielded>>

Received(decoded) ==
    IF decoded.ok /\ op = "iter" THEN IterYield(decoded.v) ELSE Finish(decoded)

\* the rest of _get after the with block, then the caller's decoding
Receive ==
    /\ pc = "received"
    /\ Received(decode_root(op, get_root(response), clock))
    /\ UNCHANGED <<op, start_timestamp, request, requests, attempts, retriesLeft, response,
                   sessions, sessionsOpened, clock, served>>
    /\ UNCHANGED <<envVars, navVars, decVars>>

StartTimestamps == {1}

Next ==
    \/ \E ts \in StartTimestamps : CallIter(ts)
    \/ IterNext
    \/ IterStop
    \/ CallStatus
    \/ CallPost
    \/ \E status \in Statuses, d \in {0, 1} : HttpRetry(status, d)
    \/ \E status \in Statuses, d \in {0, 1} : HttpExhausted(status, d)
    \/ \E status \in Statuses, d \in {0, 1} :
          \E doc \in ServerPages(1) \cup StatusDocs \cup {ErrorBody} :
              GetResponse(status, d, doc)
    \/ \E status \in Statuses, d \in {0, 1} : PostResponse(status, d)
    \/ Receive

Init == CliEnvInit /\ NavIdle /\ DecIdle /\ CliInit

Spec == Init /\ [][Next]_vars

---------------------------------------------------------------------------
(* Properties of the client *)

\* the cursor a document of the server carries: the text of paging/next
DocCursor(doc) ==
    LET pagings == { i \in 1..Len(doc.children) : doc.children[i].tag = S_paging } IN
    IF pagings = {} THEN <<>>
    ELSE Get(doc.children[CHOOSE i \in pagings : TRUE].children[1].text)

\* the ids of the entries of a document, images first, in document order
RECURSIVE DocEntryIds(_)
DocEntryIds(elems) ==
    IF elems = <<>> THEN <<>>
    ELSE LET c == Head(elems)
             ids == IF c.tag \in {S_images, S_videos}
                    THEN [j \in 1..Len(c.children) |-> Get(c.children[j].children[1].text)]
                    ELSE <<>>
         IN  ids \o DocEntryIds(Tail(elems))

PageIds(page) == [j \in 1..Len(page.updates) |-> Get(page.updates[j].id)]

\* C1: get_entries_iter makes one get_entries call per page, yields the
\* server's pages in order with all their updates, makes no call after a page
\* without cursor, and when it is exhausted it has made N >= 1 calls, page N
\* being the first without cursor.
C1_OneCallPerPageUntilNoCursor ==
    op = "iter" =>
        /\ Len(yielded) <= Len(served)
        /\ Len(served) <= Len(requests)
        /\ Len(requests) <= Len(yielded) + 1
        /\ \A k \in 1..Len(yielded) :
              /\ yielded[k].next = DocCursor(served[k])
              /\ PageIds(yielded[k]) = DocEntryIds(served[k].children)
        /\ \A k \in 1..(Len(requests) - 1) : DocCursor(served[k]) # <<>>
        /\ pc = "done" =>
              /\ Len(requests) >= 1
              /\ Len(requests) = Len(yielded)
              /\ Len(served) = Len(yielded)
              /\ DocCursor(served[Len(served)]) = <<>>

\* the iterator is exhausted after three pages
C1_Witness ==
    /\ op = "iter"
    /\ pc = "done"
    /\ Len(yielded) = 3
    /\ Len(requests) = 3

EntriesUrl == <<"h", "t", "t", "p", "s", ":", "/", "/", "e", "x", "t", "t", "e", "s", "t", ".", "c", "y", "b", "e", "r", "t", "i", "p", ".", "o", "r", "g", "/", "h", "a", "s", "h", "s", "h", "a", "r", "i", "n", "g", "/", "v", "2", "/", "e", "n", "t", "r", "i", "e", "s">>

\* C2: the first call goes to the entries endpoint with `from` and `to` and
\* the empty cursor; call k > 1 goes to base url + the cursor of the page call
\* k-1 returned, unchanged, with no query parameters.
C2_CursorResubmittedVerbatim ==
    \A k \in 1..Len(requests) :
        IF k = 1
        THEN /\ requests[k].cursor = <<>>
             /\ requests[k].url = EntriesUrl
             /\ { p[1] : p \in requests[k].params } = {"from", "to"}
        ELSE /\ requests[k].cursor = DocCursor(served[k - 1])
             /\ requests[k].url = BaseUrl \o DocCursor(served[k - 1])
             /\ requests[k].params = {}

\* the third call carries the second page's cursor, which differs from the first page's
C2_Witness ==
    /\ Len(requests) = 3
    /\ requests[3].cursor = DocCursor(served[2])
    /\ DocCursor(served[2]) # DocCursor(served[1])

\* C3 as stated: a GET is attempted at most the configured number of times
\* (Retry total) and then fails; a POST answered 500 fails after one attempt.
C3_AttemptsWithinConfiguredTotal ==
    /\ request.method = "GET" => attempts <= RetryTotal
    /\ request.method = "POST" => attempts <= 1

\* C3, amended: a GET is attempted at most 1 + Retry total times, every
\* retryable status using up one retry, and when the last of them fails too
\* the call raises RetryError and returns no response; a POST is attempted
\* once, and answered 500 it raises HTTPError.
C3_AttemptsWithinTotalPlusOne ==
    /\ request.method = "GET" =>
          /\ attempts <= RetryTotal + 1
          /\ pc = "sending" => attempts = RetryTotal - retriesLeft
    /\ (pc = "failed" /\ outcome.r = Raise("RetryError")) =>
          /\ request.method = "GET"
          /\ attempts = RetryTotal + 1
          /\ response = [status |-> 0]
    /\ request.method = "POST" =>
          /\ attempts <= 1
          /\ pc = "sending" => attempts = 0
          /\ (attempts = 1 /\ response.status >= 400) =>
                pc = "failed" /\ outcome.r = Raise("HTTPError")

\* a GET of the iterator has failed with RetryError on its last allowed attempt
C3_Witness ==
    /\ pc = "failed"
    /\ request.method = "GET"
    /\ outcome.r = Raise("RetryError")
    /\ attempts = RetryTotal + 1

\* C9: the pages' max_timestamp never decreases from one page to the next.
C9_MaxTimestampMonotonic ==
    \A k \in 1..(Len(yielded) - 1) :
        yielded[k].max_timestamp <= yielded[k + 1].max_timestamp

\* C10: a call's session is its own and is closed on every way out of _get
\* and _post: at most one session is open, only while its request is under
\* way, and none while the iterator is suspended or after the call ended.
C10_SessionsReleased ==
    /\ Cardinality(sessions) <= 1
    /\ pc # "sending" => sessions = {}
    /\ pc = "sending" => sessions = {sessionsOpened}
    /\ op = "iter" => sessionsOpened = Len(requests)
    /\ op \in {"status", "post"} => sessionsOpened = 1

\* the second request of an iteration failed with RetryError and no session is open
C10_Witness ==
    /\ op = "iter"
    /\ pc = "failed"
    /\ outcome.r = Raise("RetryError")
    /\ sessionsOpened = 2
    /\ sessions = {}

====
